---- MODULE Spec2Model ----
(***************************************************************************)
(* Model of the writeup pipeline of 0x74617465.sh: src/build.py (metadata  *)
(* parser, section extractors, YAML backfill lookup, front-matter writer,  *)
(* process_box, main).                                                     *)
(*                                                                         *)
(* Text.  A Python str is modelled as a sequence of atoms.  An atom is     *)
(* either one character ("#", "-", ":", " ", "\n", ...) or an indivisible  *)
(* run of letters/digits ("Easy", "lock", "2").  Every regular expression  *)
(* of the source only tests characters for their class (\w, \s, a literal  *)
(* punctuation character) or compares whole words, so an operator on atom  *)
(* sequences does what the regular expression does on the characters.      *)
(***************************************************************************)
EXTENDS Integers, Sequences, FiniteSets, TLC

VARIABLES
    call,            \* the function under call: its arguments and its result
    pc,              \* main(): "idle" | "start" | "scan_paths" | "scan_dir" | "done"
    dry_run,         \* main(): args.dry_run
    HAS_YAML,        \* whether the import of yaml succeeded
    ctf_root,        \* the ctf-writeups tree: <<>> when missing, else <<scan dirs>>
    yaml_dir,        \* the YAML _data dir: <<>> when missing, else <<file -> entries>>
    existing_boxes,  \* main(): the YAML backfill, a sequence of entries
    path_i,          \* main(): the index into SCAN_PATHS of the outer loop
    scan,            \* main(): the entries of the scan dir still to visit, in order
    all_boxes,       \* main(): category -> the records appended so far, in order
    total,           \* main(): box directories seen
    processed,       \* main(): records appended
    dirs,            \* the output tree: directories that exist
    files            \* the output tree: path -> content of the files written

vars == <<call, pc, dry_run, HAS_YAML, ctf_root, yaml_dir, existing_boxes, path_i, scan,
          all_boxes, total, processed, dirs, files>>

\* ------------------------------------------------------------- atoms

NL == "\n"
SP == " "
HYPHEN == "-"
ENDASH == "en-dash"       \* U+2013
EMDASH == "em-dash"       \* U+2014
MIDDOT == "middot"        \* U+00B7
BACKSLASH == "\\"
LOCK == "lock-glyph"      \* U+1F512
HOURGLASS == "hourglass"  \* U+23F3
MEMO == "memo-glyph"      \* U+1F4DD

\* The lower-case words of the model (runs of letters), each with its
\* capitalised form, and the digits.
CapTab ==
    ("easy" :> "Easy") @@ ("medium" :> "Medium") @@ ("hard" :> "Hard") @@
    ("insane" :> "Insane") @@ ("varied" :> "Varied") @@ ("basic" :> "Basic") @@
    ("season" :> "Season") @@ ("unknown" :> "Unknown") @@ ("ad" :> "Ad") @@
    ("linux" :> "Linux") @@ ("windows" :> "Windows") @@ ("unix" :> "Unix") @@
    ("freebsd" :> "Freebsd") @@ ("re" :> "Re") @@ ("lock" :> "Lock") @@
    ("summary" :> "Summary") @@ ("teaser" :> "Teaser") @@ ("notes" :> "Notes") @@
    ("status" :> "Status") @@ ("difficulty" :> "Difficulty") @@
    ("platform" :> "Platform") @@ ("os" :> "Os") @@ ("category" :> "Category") @@
    ("private" :> "Private") @@ ("hackthebox" :> "Hackthebox") @@
    ("very" :> "Very") @@ ("foo" :> "Foo") @@ ("bar" :> "Bar") @@
    ("web" :> "Web") @@ ("pwn" :> "Pwn") @@ ("layout" :> "Layout") @@
    ("pwned" :> "Pwned") @@ ("done" :> "Done") @@
    ("x" :> "X") @@ ("a" :> "A") @@ ("b" :> "B")

Letters == DOMAIN CapTab \cup {CapTab[a] : a \in DOMAIN CapTab}
               \cup {"EASY", "AD", "OS", "HackTheBox", "FreeBSD"}
Digits == {"2", "7"}
Alnum == Letters \cup Digits

\* str.lower() on one atom.
LowerAtom(a) ==
    IF a \in DOMAIN CapTab \/ a \notin Letters THEN a
    ELSE IF \E l \in DOMAIN CapTab : CapTab[l] = a
         THEN CHOOSE l \in DOMAIN CapTab : CapTab[l] = a
    ELSE CASE a = "EASY" -> "easy"
           [] a = "AD" -> "ad"
           [] a = "OS" -> "os"
           [] a = "HackTheBox" -> "hackthebox"
           [] a = "FreeBSD" -> "freebsd"

\* \w : letters, digits and the underscore.
IsWord(a) == a \in Alnum \/ a = "_"
\* \s
IsSpace(a) == a \in {SP, NL}

\* ------------------------------------------------------------- str helpers

\* str.lower()
Lower(s) == [i \in 1..Len(s) |-> LowerAtom(s[i])]

\* str.title(): the first letter of every run of letters upper-cased, the other
\* letters lower-cased.  A word atom is a run of letters; adjacent word atoms
\* make one run.
Title(s) ==
    [i \in 1..Len(s) |->
        IF s[i] \notin Letters THEN s[i]
        ELSE IF i > 1 /\ s[i - 1] \in Letters THEN LowerAtom(s[i])
        ELSE CapTab[LowerAtom(s[i])]]

\* s[i:j] of Python with 1-based inclusive bounds: atoms i..j.
Slice(s, i, j) == IF i > j THEN <<>> ELSE SubSeq(s, i, j)

\* str.strip(chars): drop the leading and trailing atoms for which In holds.
LStripBy(s, In(_)) ==
    LET keep == {i \in 1..Len(s) : ~In(s[i])}
    IN  IF keep = {} THEN <<>>
        ELSE Slice(s, CHOOSE i \in keep : \A j \in keep : i <= j, Len(s))

RStripBy(s, In(_)) ==
    LET keep == {i \in 1..Len(s) : ~In(s[i])}
    IN  IF keep = {} THEN <<>>
        ELSE Slice(s, 1, CHOOSE i \in keep : \A j \in keep : i >= j)

StripBy(s, In(_)) == RStripBy(LStripBy(s, In), In)

\* str.strip()
Strip(s) == StripBy(s, IsSpace)

\* re.sub(r'[class]', '', s)
Remove(s, In(_)) == SelectSeq(s, LAMBDA a : ~In(a))

\* re.sub(r'[class]+', rep, s): every maximal run of class atoms becomes rep.
DROPPED == "<dropped>"
SubRuns(s, In(_), rep) ==
    LET marked == [i \in 1..Len(s) |->
                     IF ~In(s[i]) THEN s[i]
                     ELSE IF i > 1 /\ In(s[i - 1]) THEN DROPPED ELSE rep]
    IN  SelectSeq(marked, LAMBDA a : a # DROPPED)

\* dict.get(key, default); a key is a str, that is a sequence of atoms.
Get(meta, key, default) == IF key \in DOMAIN meta THEN meta[key] ELSE default

\* The sequences over S of length 0..n.
SeqsUpTo(S, n) == UNION {[1..k -> S] : k \in 0..n}

\* ------------------------------------------------------------- slugify

IsHyphen(a) == a = HYPHEN
SlugDropped(a) == ~(IsWord(a) \/ IsSpace(a) \/ IsHyphen(a))
SlugSeparator(a) == IsSpace(a) \/ a = "_"

\* A slugify without the final strip('-').
slugifyNoFinalStrip(text) ==
    LET s1 == Strip(Lower(text))
        s2 == Remove(s1, SlugDropped)
        s3 == SubRuns(s2, SlugSeparator, HYPHEN)
    IN  SubRuns(s3, IsHyphen, HYPHEN)

slugify(text) ==
    LET s1 == Strip(Lower(text))                      \* text.lower().strip()
        s2 == Remove(s1, SlugDropped)                 \* [^\w\s-] removed
        s3 == SubRuns(s2, SlugSeparator, HYPHEN)      \* [\s_]+ -> '-'
        s4 == SubRuns(s3, IsHyphen, HYPHEN)           \* -+ -> '-'
    IN  StripBy(s4, IsHyphen)                         \* .strip('-')

\* ------------------------------------------------------------- regex helpers

\* The first and the last element of a non-empty set of positions.
MinOf(S) == CHOOSE i \in S : \A j \in S : i <= j
MaxOf(S) == CHOOSE i \in S : \A j \in S : i >= j

\* The position after the run of whitespace that starts at p (\s* at its
\* longest): the first position >= p that holds no whitespace, Len+1 at the end.
AfterSpaces(t, p) ==
    MinOf({q \in p..(Len(t) + 1) : q = Len(t) + 1 \/ ~IsSpace(t[q])})

\* The end of the line position p is on: the first newline at or after p,
\* Len+1 when the text ends first.
EndOfLine(t, p) ==
    MinOf({q \in p..(Len(t) + 1) : q = Len(t) + 1 \/ t[q] = NL})

\* The text has the atoms of lit at position p.
LitAt(t, p, lit) ==
    /\ p >= 1 /\ p + Len(lit) - 1 <= Len(t)
    /\ \A i \in 1..Len(lit) : t[p + i - 1] = lit[i]

\* str.splitlines() for texts whose only line break is "\n".
RECURSIVE SplitLines(_)
SplitLines(t) ==
    IF t = <<>> THEN <<>>
    ELSE LET e == EndOfLine(t, 1)
         IN  <<Slice(t, 1, e - 1)>> \o SplitLines(Slice(t, e + 1, Len(t)))

\* ------------------------------------------------------------- parse_readme_meta

\* '\n---' at position j.
FenceAt(t, j) == LitAt(t, j, <<NL>> \o <<HYPHEN, HYPHEN, HYPHEN>>)

\* re.match(r'^---\s*\n(.*?)\n---', text, re.DOTALL): group 1 as <<body>>, <<>>
\* when the text has no front matter.  \s* is greedy: the newline it leaves to
\* \n is the last one of the whitespace after the opening fence from which a
\* closing '\n---' can still be found; (.*?) is lazy: the first such fence.
FrontMatterBody(t) ==
    IF ~LitAt(t, 1, <<HYPHEN, HYPHEN, HYPHEN>>) THEN <<>>
    ELSE LET q == AfterSpaces(t, 4)
             K == {k \in 4..(q - 1) :
                     t[k] = NL /\ \E j \in (k + 1)..Len(t) : FenceAt(t, j)}
         IN  IF K = {} THEN <<>>
             ELSE LET k == MaxOf(K)
                      j == MinOf({x \in (k + 1)..Len(t) : FenceAt(t, x)})
                  IN  <<Slice(t, k + 1, j - 1)>>

IsDoubleQuote(a) == a = "\""
IsSingleQuote(a) == a = "'"

\* The loop body with a dict.setdefault in place of the assignment.
FrontMatterAssignFirstWins(meta, line) ==
    LET colons == {i \in 1..Len(line) : line[i] = ":"}
    IN  IF colons = {} THEN meta
        ELSE LET c == MinOf(colons)
                 k == Lower(Strip(Slice(line, 1, c - 1)))
                 v == StripBy(StripBy(Strip(Slice(line, c + 1, Len(line))),
                                      IsDoubleQuote), IsSingleQuote)
             IN  [x \in DOMAIN meta \cup {k} |-> IF x \in DOMAIN meta THEN meta[x] ELSE v]

\* The body of the loop over the front-matter lines (lines 84-86): meta after
\* one line.  k, _, v = line.partition(':').
FrontMatterAssign(meta, line) ==
    LET colons == {i \in 1..Len(line) : line[i] = ":"}
    IN  IF colons = {} THEN meta
        ELSE LET c == MinOf(colons)
                 k == Lower(Strip(Slice(line, 1, c - 1)))
                 v == StripBy(StripBy(Strip(Slice(line, c + 1, Len(line))),
                                      IsDoubleQuote), IsSingleQuote)
             IN  [x \in DOMAIN meta \cup {k} |-> IF x = k THEN v ELSE meta[x]]

\* patterns (lines 89-95): the key of each pattern pair, in dict order, and the
\* labels its two patterns accept.
PatternKeys == <<"status", "difficulty", "platform", "os", "category">>
PatternLabels(key) == IF key = "os" THEN {"os", "platform"} ELSE {key}

\* r'\*\*Label:\*\*' at position i (IGNORECASE); the match ends before i + 6.
BoldAt(t, i, labels) ==
    /\ i + 5 <= Len(t)
    /\ t[i] = "*" /\ t[i + 1] = "*"
    /\ LowerAtom(t[i + 2]) \in labels
    /\ t[i + 3] = ":" /\ t[i + 4] = "*" /\ t[i + 5] = "*"

\* r'^Label:' at position i (IGNORECASE | MULTILINE); the match ends before i + 2.
PlainAt(t, i, labels) ==
    /\ i + 1 <= Len(t)
    /\ i = 1 \/ t[i - 1] = NL
    /\ LowerAtom(t[i]) \in labels
    /\ t[i + 1] = ":"

\* r'\s*(.+)' from position p: group 1 as <<value>>, <<>> when it cannot match.
\* \s* takes the whole run of whitespace (newlines included) and (.+) the rest
\* of that line; at the end of the text \s* gives back its last characters
\* until (.+) finds one that is no newline.
ValueAfter(t, p) ==
    LET q == AfterSpaces(t, p)
    IN  IF q <= Len(t) THEN <<Slice(t, q, EndOfLine(t, q) - 1)>>
        ELSE LET M == {m \in p..Len(t) : t[m] # NL}
             IN  IF M = {} THEN <<>>
                 ELSE <<Slice(t, MaxOf(M), EndOfLine(t, MaxOf(M)) - 1)>>

\* re.search of the bold pattern of a key: <<group 1>> of the leftmost match.
BoldSearch(t, labels) ==
    LET at == {i \in 1..Len(t) : BoldAt(t, i, labels) /\ ValueAfter(t, i + 6) # <<>>}
    IN  IF at = {} THEN <<>> ELSE ValueAfter(t, MinOf(at) + 6)

PlainSearch(t, labels) ==
    LET at == {i \in 1..Len(t) : PlainAt(t, i, labels) /\ ValueAfter(t, i + 2) # <<>>}
    IN  IF at = {} THEN <<>> ELSE ValueAfter(t, MinOf(at) + 2)

\* The body of the loop over patterns (lines 96-103): meta after one key.
PatternAssign(meta, t, key) ==
    LET bold  == BoldSearch(t, PatternLabels(key))
        plain == PlainSearch(t, PatternLabels(key))
        found == IF bold # <<>> THEN bold ELSE plain
    IN  IF <<key>> \in DOMAIN meta \/ found = <<>> THEN meta
        ELSE [x \in DOMAIN meta \cup {<<key>>} |->
                 IF x = <<key>> THEN Strip(found[1]) ELSE meta[x]]

\* The lines the front-matter loop runs over.
FrontMatterLines(t) ==
    IF FrontMatterBody(t) = <<>> THEN <<>> ELSE SplitLines(FrontMatterBody(t)[1])

RECURSIVE FrontMatterLoop(_, _)
FrontMatterLoop(meta, lines) ==
    IF lines = <<>> THEN meta
    ELSE FrontMatterLoop(FrontMatterAssign(meta, Head(lines)), Tail(lines))

RECURSIVE PatternLoop(_, _, _)
PatternLoop(meta, t, keys) ==
    IF keys = <<>> THEN meta
    ELSE PatternLoop(PatternAssign(meta, t, Head(keys)), t, Tail(keys))

parse_readme_meta(text) ==
    PatternLoop(FrontMatterLoop(<<>>, FrontMatterLines(text)), text, PatternKeys)

\* ------------------------------------------------------------- section extractors

\* The end of the capture (.*?)(?=\n##|\Z) that starts at cs: the position of
\* the first '\n##' at or after cs, Len+1 when there is none.
SectionEnd(t, cs) ==
    MinOf({j \in cs..(Len(t) + 1) : j = Len(t) + 1 \/ LitAt(t, j, <<NL, "#", "#">>)})

\* r'##\s*(?:MEMO\s*)?Summary\s*\n+' at position i: <<cs>>, the position where
\* the capture starts, <<>> when the heading does not match at i.  \s* after
\* 'Summary' is greedy, so \n+ is left the last newline of the whitespace.
SummaryHeadingAt(t, i) ==
    IF ~LitAt(t, i, <<"#", "#">>) THEN <<>>
    ELSE LET p1 == AfterSpaces(t, i + 2)
             p2 == IF p1 <= Len(t) /\ t[p1] = MEMO THEN AfterSpaces(t, p1 + 1) ELSE p1
         IN  IF ~(p2 <= Len(t) /\ LowerAtom(t[p2]) = "summary") THEN <<>>
             ELSE LET q  == AfterSpaces(t, p2 + 1)
                      nl == {k \in (p2 + 1)..(q - 1) : t[k] = NL}
                  IN  IF nl = {} THEN <<>> ELSE <<MaxOf(nl) + 1>>

\* m.group(1) of a section match whose capture starts at cs.
SectionCapture(t, cs) == Slice(t, cs, SectionEnd(t, cs) - 1)

\* content.split('\n\n')[0]
FirstParagraph(s) ==
    LET at == {i \in 1..(Len(s) - 1) : s[i] = NL /\ s[i + 1] = NL}
    IN  IF at = {} THEN s ELSE Slice(s, 1, MinOf(at) - 1)

\* re.sub(r'\s*\n\s*', ' ', s): every run of whitespace that holds a newline
\* becomes one space.
CollapseNewlines(s) ==
    LET InRun(i) == IsSpace(s[i])
        \* the run of whitespace position i lies in
        RunStart(i) == MinOf({a \in 1..i : \A x \in a..i : IsSpace(s[x])})
        RunLast(i) == MaxOf({b \in i..Len(s) : \A x \in i..b : IsSpace(s[x])})
        HasNL(i) == \E x \in RunStart(i)..RunLast(i) : s[x] = NL
        marked == [i \in 1..Len(s) |->
                     IF ~InRun(i) \/ ~HasNL(i) THEN s[i]
                     ELSE IF i = RunStart(i) THEN SP ELSE DROPPED]
    IN  SelectSeq(marked, LAMBDA a : a # DROPPED)

\* re.sub(r'\*+([^*]+)\*+', r'\1', s): a span wrapped in asterisks loses them.
RECURSIVE StripEmphasis(_)
StripEmphasis(s) ==
    LET stars == {i \in 1..Len(s) : s[i] = "*"}
        \* a match starts at a star i whose run of stars is followed by at least
        \* one other character and then by a star
        Opens(i) ==
            LET a == MinOf({x \in i..(Len(s) + 1) : x = Len(s) + 1 \/ s[x] # "*"})
            IN  a <= Len(s) /\ \E b \in (a + 1)..Len(s) : s[b] = "*"
        starts == {i \in stars : Opens(i)}
    IN  IF starts = {} THEN s
        ELSE LET i == MinOf(starts)
                 a == MinOf({x \in i..Len(s) : s[x] # "*"})
                 b == MinOf({x \in a..Len(s) : s[x] = "*"})
                 c == MinOf({x \in b..(Len(s) + 1) : x = Len(s) + 1 \/ s[x] # "*"})
             IN  Slice(s, 1, i - 1) \o Slice(s, a, b - 1)
                   \o StripEmphasis(Slice(s, c, Len(s)))

extract_summary_from_readme(text) ==
    LET at == {i \in 1..Len(text) : SummaryHeadingAt(text, i) # <<>>}
    IN  IF at = {} THEN <<>>
        ELSE LET content    == Strip(SectionCapture(text, SummaryHeadingAt(text, MinOf(at))[1]))
                 first_para == Strip(FirstParagraph(content))
             IN  Strip(StripEmphasis(CollapseNewlines(first_para)))

\* r'##\s*[^\n]*Teaser[^\n]*\n+' at position i: <<cs>> or <<>>.  'Teaser' has
\* to stand on the line the whitespace after '##' ends on, that line has to end
\* with a newline, and \n+ takes every newline that follows.
TeaserHeadingAt(t, i) ==
    IF ~LitAt(t, i, <<"#", "#">>) THEN <<>>
    ELSE LET q == AfterSpaces(t, i + 2)
             e == EndOfLine(t, q)
         IN  IF e <= Len(t) /\ \E x \in q..(e - 1) : LowerAtom(t[x]) = "teaser"
             THEN <<MinOf({c \in e..(Len(t) + 1) : c = Len(t) + 1 \/ t[c] # NL})>>
             ELSE <<>>

extract_teaser(text) ==
    LET at == {i \in 1..Len(text) : TeaserHeadingAt(text, i) # <<>>}
    IN  IF at = {} THEN <<>>
        ELSE Strip(SectionCapture(text, TeaserHeadingAt(text, MinOf(at))[1]))

\* ------------------------------------------------------------- is_private

\* 'LOCK' in status or 'private' in status.lower(); the only word of the model
\* that holds the letters 'private' is the word itself.
is_private(meta) ==
    LET status == Get(meta, <<"status">>, <<>>)
    IN  \E i \in 1..Len(status) : status[i] = LOCK \/ LowerAtom(status[i]) = "private"

\* ------------------------------------------------------------- YAML backfill lookup

\* re.sub(r'[\W_]', '', name.lower())
Normalise(name) == Remove(Lower(name), LAMBDA a : a \notin Alnum)

RECURSIVE extract_summary_from_existing(_, _)
extract_summary_from_existing(name, boxes) ==
    IF boxes = <<>> THEN <<>>
    ELSE LET box == Head(boxes)
         IN  IF Lower(box.name) = Lower(name) THEN box.summary
             ELSE IF Normalise(box.name) = Normalise(name) THEN box.summary
             ELSE extract_summary_from_existing(name, Tail(boxes))

RECURSIVE extract_diff_from_existing(_, _)
extract_diff_from_existing(name, boxes) ==
    IF boxes = <<>> THEN <<>>
    ELSE LET box == Head(boxes)
         IN  IF Lower(box.name) = Lower(name) THEN box.diff
             ELSE IF Normalise(box.name) = Normalise(name) THEN box.diff
             ELSE extract_diff_from_existing(name, Tail(boxes))

\* ------------------------------------------------------------- front matter writer

DIFF_MAP ==
    (<<"easy">> :> <<"Easy">>) @@ (<<"medium">> :> <<"Medium">>) @@
    (<<"hard">> :> <<"Hard">>) @@ (<<"insane">> :> <<"Insane">>) @@
    (<<"medium", HYPHEN, "hard">> :> <<"Hard">>) @@ (<<"varied">> :> <<"Varied">>) @@
    (<<"basic">> :> <<"Easy">>) @@ (<<"season">> :> <<"Varied">>)

\* DIFF_MAP.get(diff_raw.lower(), diff_raw.title() if diff_raw else 'Unknown')
DiffMapped(diff_raw) ==
    IF Lower(diff_raw) \in DOMAIN DIFF_MAP THEN DIFF_MAP[Lower(diff_raw)]
    ELSE IF diff_raw # <<>> THEN Title(diff_raw)
    ELSE <<"Unknown">>

\* re.split(r'[|·\-–\\]|\s{2,}|\*\*', s)[0]: the text before the first separator.
DiffSeparatorAt(s, i) ==
    \/ s[i] \in {"|", MIDDOT, HYPHEN, ENDASH, BACKSLASH}
    \/ i < Len(s) /\ IsSpace(s[i]) /\ IsSpace(s[i + 1])
    \/ i < Len(s) /\ s[i] = "*" /\ s[i + 1] = "*"

DiffFirstPiece(s) ==
    LET at == {i \in 1..Len(s) : DiffSeparatorAt(s, i)}
    IN  IF at = {} THEN s
        ELSE Slice(s, 1, (CHOOSE i \in at : \A j \in at : i <= j) - 1)

\* s.split()[0] if s else '' (s is stripped: it starts with a non-space).
FirstWord(s) ==
    LET sp == {i \in 1..Len(s) : IsSpace(s[i])}
    IN  IF sp = {} THEN s
        ELSE Slice(s, 1, (CHOOSE i \in sp : \A j \in sp : i <= j) - 1)

\* build_front_matter, lines 227-233: the cleaned difficulty token.
DiffToken(meta) ==
    LET d0 == Strip(Get(meta, <<"difficulty">>, <<>>))
        d1 == Strip(DiffFirstPiece(d0))
        d2 == Strip(Remove(d1, LAMBDA a : ~(IsWord(a) \/ IsSpace(a))))
    IN  FirstWord(d2)

\* A difficulty that never consults the YAML backfill.
DifficultyNoFallback(name, meta, boxes) == DiffMapped(DiffToken(meta))

\* build_front_matter, lines 227-237: diff.
Difficulty(name, meta, boxes) ==
    LET tok == DiffToken(meta)
        diff_raw == IF (tok = <<>> \/ Lower(tok) = <<"unknown">>) /\ boxes # <<>>
                    THEN extract_diff_from_existing(name, boxes)
                    ELSE tok
    IN  DiffMapped(diff_raw)

\* OS normalisation of one raw value, lines 240-244.
OsNormalised(raw) ==
    LET v == Strip(Remove(Strip(raw), LAMBDA a : ~(IsWord(a) \/ IsSpace(a))))
    IN  IF Lower(v) \in {<<"linux">>, <<"unix">>, <<"freebsd">>} THEN <<"Linux">>
        ELSE IF Lower(v) = <<"windows">> THEN <<"Windows">>
        ELSE v

\* build_front_matter, lines 239-244: os_val.
OsVal(meta) == OsNormalised(Get(meta, <<"platform">>, Get(meta, <<"os">>, <<>>)))

\* re.split(r'[|,;]', s): the pieces between the separators.
RECURSIVE SplitOn(_, _)
SplitOn(s, seps) ==
    LET at == {i \in 1..Len(s) : s[i] \in seps}
    IN  IF at = {} THEN <<s>>
        ELSE LET i == CHOOSE k \in at : \A j \in at : k <= j
             IN  <<Slice(s, 1, i - 1)>> \o SplitOn(Slice(s, i + 1, Len(s)), seps)

\* build_front_matter, lines 246-247: tags.
Tags(meta) ==
    LET category_val == Strip(Get(meta, <<"category">>, <<>>))
        pieces == SplitOn(category_val, {"|", ",", ";"})
    IN  IF category_val = <<>> THEN <<>>
        ELSE SelectSeq([i \in 1..Len(pieces) |-> Strip(pieces[i])],
                       LAMBDA t : t # <<>>)

\* ", ".join(tags)
RECURSIVE JoinComma(_)
JoinComma(tags) ==
    IF tags = <<>> THEN <<>>
    ELSE IF Len(tags) = 1 THEN tags[1]
    ELSE tags[1] \o <<",", SP>> \o JoinComma(Tail(tags))

QUOTE == "\""
\* f'key: "{value}"\n' and f'key: {value}\n'
QuotedLine(key, value) == <<key, ":", SP, QUOTE>> \o value \o <<QUOTE, NL>>
PlainLine(key, value) == <<key, ":", SP>> \o value \o <<NL>>
FENCE == <<HYPHEN, HYPHEN, HYPHEN>>

\* f'/writeups/{category}/{slug}/'
Url(category, slug) == <<"/", "writeups", "/", category, "/">> \o slug \o <<"/">>

build_front_matter(name, meta, category, platform, summary, pwned, date_str, boxes) ==
    LET diff   == Difficulty(name, meta, boxes)
        os_val == OsVal(meta)
        tags   == Tags(meta)
        fm == FENCE \o <<NL>>
              \o PlainLine("layout", <<"writeup">>)
              \o QuotedLine("name", name)
              \o QuotedLine("platform", <<platform>>)
              \o QuotedLine("category", <<category>>)
              \o QuotedLine("difficulty", diff)
              \o PlainLine("permalink", Url(category, slugify(name)))
              \o (IF os_val # <<>> THEN QuotedLine("os", os_val) ELSE <<>>)
              \o (IF tags # <<>>
                  THEN PlainLine("tags", <<"[">> \o JoinComma(tags) \o <<"]">>)
                  ELSE <<>>)
              \o (IF date_str # <<>> THEN PlainLine("date", date_str) ELSE <<>>)
              \o (IF pwned THEN PlainLine("pwned", <<"true">>) ELSE <<>>)
              \o FENCE \o <<NL>>
    IN  [fm |-> fm, diff |-> diff, os_val |-> os_val, tags |-> tags]

\* ------------------------------------------------------------- process_box

\* A closing fence for the stripping pattern at position j: '\n---\s*\n'.
ClosingFenceAt(t, j) ==
    /\ FenceAt(t, j)
    /\ \E x \in (j + 4)..(AfterSpaces(t, j + 4) - 1) : t[x] = NL

\* Lines 301-304: text without the match of r'^---\s*\n.*?\n---\s*\n' (DOTALL).
\* The match ends after the last newline of the whitespace behind the closing
\* fence.
StripFrontMatter(t) ==
    IF ~LitAt(t, 1, <<HYPHEN, HYPHEN, HYPHEN>>) THEN t
    ELSE LET q == AfterSpaces(t, 4)
             K == {k \in 4..(q - 1) :
                     t[k] = NL /\ \E j \in (k + 1)..Len(t) : ClosingFenceAt(t, j)}
         IN  IF K = {} THEN t
             ELSE LET k == MaxOf(K)
                      j == MinOf({x \in (k + 1)..Len(t) : ClosingFenceAt(t, x)})
                      e == MaxOf({x \in (j + 4)..(AfterSpaces(t, j + 4) - 1) : t[x] = NL})
                  IN  Slice(t, e + 1, Len(t))

\* '\n> LOCK **Spoiler Policy** EMDASH Full writeup published on machine retirement.\n\n'
SPOILER_NOTICE ==
    <<NL, ">", SP, LOCK, SP, "*", "*", "Spoiler", SP, "Policy", "*", "*", SP, EMDASH, SP,
      "Full", SP, "writeup", SP, "published", SP, "on", SP, "machine", SP,
      "retirement", ".", NL, NL>>

\* f'## Teaser\n\n{teaser}\n'
TeaserBlock(teaser) == <<"#", "#", SP, "Teaser", NL, NL>> \o teaser \o <<NL>>

\* A body that is redacted for every private document, active or not.
ContentRedactAllPrivate(text, private, category, teaser) ==
    IF private
    THEN SPOILER_NOTICE \o (IF teaser # <<>> THEN TeaserBlock(teaser) ELSE <<>>)
    ELSE StripFrontMatter(text)

\* Lines 300-310: the body written after the front matter.
Content(text, private, category, teaser) ==
    IF private /\ category = "active"
    THEN SPOILER_NOTICE \o (IF teaser # <<>> THEN TeaserBlock(teaser) ELSE <<>>)
    ELSE StripFrontMatter(text)

\* A summary chain that takes the teaser for every document, private or not.
SummaryTeaserAlways(text, name, private, boxes) ==
    IF extract_summary_from_readme(text) # <<>> THEN extract_summary_from_readme(text)
    ELSE IF extract_summary_from_existing(name, boxes) # <<>>
         THEN extract_summary_from_existing(name, boxes)
    ELSE extract_teaser(text)

\* Lines 286-291: a or b or c.
Summary(text, name, private, boxes) ==
    IF extract_summary_from_readme(text) # <<>> THEN extract_summary_from_readme(text)
    ELSE IF extract_summary_from_existing(name, boxes) # <<>>
         THEN extract_summary_from_existing(name, boxes)
    ELSE IF private THEN extract_teaser(text) ELSE <<>>

\* The output tree.  A path is the atoms of its '/'-joined text, relative to
\* the output root.
DEST_DIR == <<"_writeups">>
JS_OUT == <<"boxes-data.js">>
CategoryDir(category) == DEST_DIR \o <<"/", category>>
\* dest_dir / category / slug (joining an empty slug adds nothing)
DestPath(category, slug) ==
    IF slug = <<>> THEN CategoryDir(category) ELSE CategoryDir(category) \o <<"/">> \o slug

IMAGE_SUFFIXES == {".png", ".jpg", ".jpeg", ".gif", ".webp", ".svg"}
\* The files a box directory may hold beside README.md, with their suffix.
Suffix == ("shot.png" :> ".png") @@ ("notes.txt" :> ".txt")

\* process_box: what it returns (<<>> for None, else <<record>>), the
\* directories it makes and the files it writes.  A box is a directory: its
\* name, README.md (<<>> when missing, else <<text>>), the date of the README's
\* mtime and the names of its other files.
process_box(box, category, platform, dry, boxes) ==
    IF box.readme = <<>> THEN [ret |-> <<>>, mkdirs |-> {}, writes |-> <<>>]
    ELSE
    LET name    == box.name
        text    == box.readme[1]
        meta    == parse_readme_meta(text)
        private == is_private(meta)
        teaser  == extract_teaser(text)
        summary == Summary(text, name, private, boxes)
        pwned   == \A i \in 1..Len(Get(meta, <<"status">>, <<>>)) :
                       Get(meta, <<"status">>, <<>>)[i] # HOURGLASS
        front   == build_front_matter(name, meta, category, platform, summary,
                                      pwned, box.date, boxes)
        content == Content(text, private, category, teaser)
        slug    == slugify(name)
        dest    == DestPath(category, slug)
        images  == {f \in box.files : Suffix[f] \in IMAGE_SUFFIXES}
        paths   == {dest \o <<"/", "index.md">>} \cup {dest \o <<"/", f>> : f \in images}
    IN  [ret |-> <<[name     |-> name,
                    diff     |-> front.diff,
                    os       |-> front.os_val,
                    platform |-> platform,
                    category |-> category,
                    status   |-> IF pwned THEN "done" ELSE "pending",
                    private  |-> private,
                    summary  |-> summary,
                    url      |-> Url(category, slug),
                    date     |-> box.date]>>,
         mkdirs |-> {DEST_DIR, CategoryDir(category), dest},
         writes |-> IF dry THEN <<>>
                    ELSE [p \in paths |->
                            IF p = dest \o <<"/", "index.md">>
                            THEN front.fm \o content
                            ELSE <<"bytes of", p[Len(p)]>>]]

\* ------------------------------------------------------------- load_existing_boxes

\* The YAML files of the _data dir in sorted order.
YamlFileOrder == <<"boxes.yml", "prolabs.yml">>

\* re.sub(r'\s*\n\s*', ' ', summary).strip(): every maximal run of whitespace
\* that holds a line break becomes one space.
NormaliseMultiline(s) ==
    LET lo(i) == MinOf({j \in 1..i : \A k \in j..i : IsSpace(s[k])})
        hi(i) == MaxOf({j \in i..Len(s) : \A k \in i..j : IsSpace(s[k])})
        inBreak(i) == IsSpace(s[i]) /\ \E k \in lo(i)..hi(i) : s[k] = NL
        marked == [i \in 1..Len(s) |->
                     IF ~inBreak(i) THEN s[i]
                     ELSE IF i = lo(i) THEN SP ELSE DROPPED]
    IN  Strip(SelectSeq(marked, LAMBDA a : a # DROPPED))

\* Lines 200-217: the entry appended for one YAML entry (<<>> when skipped).
ExistingEntry(entry) ==
    IF "name" \notin DOMAIN entry THEN <<>>
    ELSE LET first == IF Get(entry, "summary", <<>>) # <<>> THEN entry["summary"]
                      ELSE IF Get(entry, "notes", <<>>) # <<>> THEN entry["notes"]
                      ELSE Get(entry, "blurb", <<>>)
         IN  <<[name    |-> entry["name"],
                diff    |-> Strip(Get(entry, "difficulty", <<>>)),
                summary |-> NormaliseMultiline(first)]>>

RECURSIVE ExistingEntries(_)
ExistingEntries(entries) ==
    IF entries = <<>> THEN <<>>
    ELSE ExistingEntry(Head(entries)) \o ExistingEntries(Tail(entries))

RECURSIVE ExistingOfFiles(_, _)
ExistingOfFiles(ydir, order) ==
    IF order = <<>> THEN <<>>
    ELSE (IF Head(order) \in DOMAIN ydir THEN ExistingEntries(ydir[Head(order)]) ELSE <<>>)
         \o ExistingOfFiles(ydir, Tail(order))

\* load_existing_boxes(yaml_dir), with the yaml module present or not.
load_existing_boxes(ydir, has_yaml) ==
    IF ydir = <<>> THEN <<>>
    ELSE IF ~has_yaml THEN <<>>
    ELSE ExistingOfFiles(ydir[1], YamlFileOrder)

\* ------------------------------------------------------------- main

\* SCAN_PATHS: (relative path, category, platform).
SCAN_PATHS ==
    << <<"HTB/Seasonal", "seasonal", "HackTheBox">>,
       <<"HTB/Active", "active", "HackTheBox">>,
       <<"HTB/Retired", "retired", "HackTheBox">>,
       <<"HTB/Challenges", "challenges", "HackTheBox">>,
       <<"HTB/ProLabs", "prolabs", "HackTheBox">>,
       <<"HTB/StartingPoint", "starting", "HackTheBox">>,
       <<"Other/THM", "thm", "TryHackMe">>,
       <<"Other/PG", "pg", "ProvingGrounds">>,
       <<"Other/HackSmarter", "hacksmarter", "HackSmarter">> >>

\* sorted(scan_dir.iterdir()): the entry names of the model in str order
\* (upper case sorts before lower case).
NameOrder == << <<"Re", SP, "Lock">>, <<"re", HYPHEN, "lock">>, <<"x">> >>
NameRank(name) == CHOOSE i \in 1..Len(NameOrder) : NameOrder[i] = name

RECURSIVE SortedEntries(_)
SortedEntries(entries) ==
    IF entries = {} THEN <<>>
    ELSE LET e == CHOOSE x \in entries :
                     \A y \in entries : NameRank(x.name) <= NameRank(y.name)
         IN  <<e>> \o SortedEntries(entries \ {e})

\* Lines 396-399: yaml_lookup, keyed on the normalised name; a later entry
\* replaces an earlier one with the same key.
YamlLookup(data) ==
    LET named == {i \in 1..Len(data) : "name" \in DOMAIN data[i]}
        keys  == {Normalise(data[i]["name"]) : i \in named}
    IN  [k \in keys |-> data[MaxOf({i \in named : Normalise(data[i]["name"]) = k})]]

\* Lines 401-409: one prolabs record after enrichment.
EnrichBox(box, lookup) ==
    LET key == Normalise(box.name)
    IN  IF key \notin DOMAIN lookup THEN box
        ELSE LET match == lookup[key]
                 blurb == Get(match, "blurb", box.summary)
             IN  [name      |-> box.name,
                  diff      |-> box.diff,
                  os        |-> box.os,
                  platform  |-> box.platform,
                  category  |-> box.category,
                  status    |-> box.status,
                  private   |-> box.private,
                  summary   |-> IF box.summary = <<>> THEN blurb ELSE box.summary,
                  url       |-> box.url,
                  date      |-> box.date,
                  tier      |-> Get(match, "tier", <<"Pro", SP, "Lab">>),
                  blurb     |-> blurb,
                  proof_img |-> Get(match, "proof_img", <<>>)]

\* Lines 390-416: all_boxes after the enrichment of its 'prolabs' records.
Enriched(boxes, ydir, has_yaml) ==
    IF ydir = <<>> \/ ~has_yaml THEN boxes
    ELSE IF "prolabs.yml" \notin DOMAIN ydir[1] THEN boxes
    ELSE IF "prolabs" \notin DOMAIN boxes THEN boxes
    ELSE LET lookup == YamlLookup(ydir[1]["prolabs.yml"])
         IN  [c \in DOMAIN boxes |->
                IF c # "prolabs" THEN boxes[c]
                ELSE [i \in 1..Len(boxes[c]) |-> EnrichBox(boxes[c][i], lookup)]]

\* ------------------------------------------------------------- inject_prolab_summaries

PROLABS_REL_PATH == "HTB/ProLabs"

\* Position i starts a line (^ under re.MULTILINE).
LineStartAt(t, i) == i = 1 \/ (i > 1 /\ i <= Len(t) + 1 /\ t[i - 1] = NL)

\* has_summary_section: r'^##\s*(?:MEMO\s*)?Summary' matches at a line start.
has_summary_section(text) ==
    \E i \in 1..Len(text) :
        /\ LineStartAt(text, i)
        /\ LitAt(text, i, <<"#", "#">>)
        /\ LET p1 == AfterSpaces(text, i + 2)
               p2 == IF p1 <= Len(text) /\ text[p1] = MEMO
                     THEN AfterSpaces(text, p1 + 1) ELSE p1
           IN  p2 <= Len(text) /\ LowerAtom(text[p2]) = "summary"

\* f"## Summary\n{blurb}\n\n---\n"
SummaryBlock(blurb) ==
    <<"#", "#", SP, "Summary", NL>> \o blurb \o <<NL, NL>> \o FENCE \o <<NL>>

\* The starts of the matches of r'^##\s+' (re.MULTILINE).
HeadingStarts(text) ==
    {i \in 1..Len(text) :
        /\ LineStartAt(text, i)
        /\ LitAt(text, i, <<"#", "#">>)
        /\ i + 2 <= Len(text) /\ IsSpace(text[i + 2])}

\* text.rstrip('\n')
RStripNewlines(text) ==
    LET keep == {i \in 1..Len(text) : text[i] # NL}
    IN  IF keep = {} THEN <<>> ELSE Slice(text, 1, MaxOf(keep))

\* An inject_summary that appends the block right behind the text.
inject_summaryNoBreak(text, blurb) ==
    IF HeadingStarts(text) # {}
    THEN LET insert_at == MinOf(HeadingStarts(text))
         IN  Slice(text, 1, insert_at - 1) \o SummaryBlock(blurb)
               \o Slice(text, insert_at, Len(text))
    ELSE text \o SummaryBlock(blurb)

\* inject_summary
inject_summary(text, blurb) ==
    IF HeadingStarts(text) # {}
    THEN LET insert_at == MinOf(HeadingStarts(text))
         IN  Slice(text, 1, insert_at - 1) \o SummaryBlock(blurb)
               \o Slice(text, insert_at, Len(text))
    ELSE RStripNewlines(text) \o <<NL, NL>> \o SummaryBlock(blurb)

\* ------------------------------------------------------------- idle pipeline

\* The pipeline variables while a single function is under call.
Idle ==
    /\ pc = "idle"
    /\ dry_run = FALSE
    /\ HAS_YAML = TRUE
    /\ ctf_root = <<>>
    /\ yaml_dir = <<>>
    /\ existing_boxes = <<>>
    /\ path_i = 1
    /\ scan = <<>>
    /\ all_boxes = <<>>
    /\ total = 0
    /\ processed = 0
    /\ dirs = {}
    /\ files = <<>>

pipeline == <<pc, dry_run, HAS_YAML, ctf_root, yaml_dir, existing_boxes, path_i, scan,
              all_boxes, total, processed, dirs, files>>

\* ------------------------------------------------------------- slugify under call

MaxSlugName == 3
SlugAtoms == {"Re", "re", ":", SP, HYPHEN, "_"}
SlugNames == SeqsUpTo(SlugAtoms, MaxSlugName)

\* The letters and digits of a name, lower-cased.
LettersAndDigits(name) == Lower(SelectSeq(name, LAMBDA a : a \in Alnum))

InitSlug ==
    /\ Idle
    /\ \E a \in SlugNames :
         call = [fn |-> "slugify", state |-> "called", text |-> a,
                 other |-> <<>>, ret |-> <<>>, ret_other |-> <<>>]

\* slugify(text) returns; a second name with the same letters and digits is
\* slugified beside it.
SlugifyReturn ==
    /\ call.fn = "slugify" /\ call.state = "called"
    /\ \E b \in SlugNames :
         /\ LettersAndDigits(b) = LettersAndDigits(call.text)
         /\ call' = [call EXCEPT !.state = "returned", !.other = b,
                                 !.ret = slugify(call.text),
                                 !.ret_other = slugify(b)]
    /\ UNCHANGED pipeline

NextSlug == SlugifyReturn

SpecSlug == InitSlug /\ [][NextSlug]_vars

\* A punctuation character: neither letter, digit nor whitespace.
IsPunct(a) == ~(a \in Alnum \/ IsSpace(a))

SlugReturned == call.fn = "slugify" /\ call.state = "returned"

\* The two names differ only in letter case and punctuation.
DifferOnlyInCaseAndPunct ==
    Lower(Remove(call.text, IsPunct)) = Lower(Remove(call.other, IsPunct))

\* The two names differ only in letter case and in the punctuation slugify
\* deletes (anything but the hyphen and the underscore).
DifferOnlyInCaseAndDroppedPunct ==
    Lower(Remove(call.text, SlugDropped)) = Lower(Remove(call.other, SlugDropped))

\* C5 as stated: two names that differ only in letter case and punctuation and
\* have the same letters and digits get the same slug.
C5_SameSlugAnyPunct ==
    (SlugReturned /\ DifferOnlyInCaseAndPunct) => call.ret = call.ret_other

\* C5 as amended: two names that differ only in letter case and in punctuation
\* other than hyphens and underscores get the same slug.
C5_SameSlugDroppedPunct ==
    (SlugReturned /\ DifferOnlyInCaseAndDroppedPunct) => call.ret = call.ret_other

\* C5 witness: 'Re:' next to 're' style pairs, differing in case and in a
\* deleted punctuation character, slugified to the same non-empty slug.
C5_Witness ==
    /\ SlugReturned
    /\ DifferOnlyInCaseAndDroppedPunct
    /\ Lower(call.text) # Lower(call.other)
    /\ call.text # Lower(call.text)
    /\ call.other = Lower(call.other)
    /\ call.ret = call.ret_other
    /\ call.ret # <<>>

\* ------------------------------------------------------------- the YAML backfill datasets

MaxEntries == 2
EntryNames == {<<"Lock", HYPHEN, "2">>, <<"lock", SP, "2">>, <<"Re">>}
\* (difficulty, summary) of an entry, as load_existing_boxes stores them.
EntryValues ==
    {<<(<<"medium", HYPHEN, "hard">>), (<<"foo">>)>>,
     <<(<<"easy">>), (<<"bar">>)>>,
     <<(<<>>), (<<>>)>>}
Entries ==
    {[name |-> n, diff |-> v[1], summary |-> v[2]] : n \in EntryNames, v \in EntryValues}
Datasets == SeqsUpTo(Entries, MaxEntries)

\* ------------------------------------------------------------- lookup under call

LookupNames == EntryNames \cup {<<"lock", "2">>, <<"x">>}

InitLookup ==
    /\ Idle
    /\ \E n \in LookupNames, ds \in Datasets :
         call = [fn |-> "extract_from_existing", state |-> "called", name |-> n,
                 boxes |-> ds, boxes_after |-> ds, summary |-> <<>>, diff |-> <<>>]

\* extract_summary_from_existing and extract_diff_from_existing return.
LookupReturn ==
    /\ call.fn = "extract_from_existing" /\ call.state = "called"
    /\ call' = [call EXCEPT
                  !.state = "returned",
                  !.summary = extract_summary_from_existing(call.name, call.boxes),
                  !.diff = extract_diff_from_existing(call.name, call.boxes)]
    /\ UNCHANGED pipeline

NextLookup == LookupReturn

SpecLookup == InitLookup /\ [][NextLookup]_vars

\* The indexes of the entries that match a name exactly (case-insensitively),
\* and of those that match it after normalisation.
ExactMatches(name, boxes) ==
    {i \in 1..Len(boxes) : Lower(boxes[i].name) = Lower(name)}
NormalisedMatches(name, boxes) ==
    {i \in 1..Len(boxes) : Normalise(boxes[i].name) = Normalise(name)}
First(S) == CHOOSE i \in S : \A j \in S : i <= j

\* The entry the two-pass policy selects: the first exact match if there is one,
\* else the first normalised match; 0 when nothing matches.
TwoPassMatch(name, boxes) ==
    IF ExactMatches(name, boxes) # {} THEN First(ExactMatches(name, boxes))
    ELSE IF NormalisedMatches(name, boxes) # {} THEN First(NormalisedMatches(name, boxes))
    ELSE 0

\* C4 as stated: the lookup returns the value of the first exact match if some
\* entry matches exactly, only otherwise that of the first normalised match,
\* '' when nothing matches, and leaves the dataset as it was.
C4_ExactMatchWinsOverNormalised ==
    (call.fn = "extract_from_existing" /\ call.state = "returned") =>
        LET i == TwoPassMatch(call.name, call.boxes)
        IN  /\ call.summary = (IF i = 0 THEN <<>> ELSE call.boxes[i].summary)
            /\ call.diff = (IF i = 0 THEN <<>> ELSE call.boxes[i].diff)
            /\ call.boxes_after = call.boxes

\* ------------------------------------------------------------- build_front_matter under call

DiffWords == {<<>>, <<"Easy">>, <<"EASY">>, <<"hard">>, <<"Unknown">>, <<"Very">>}
DiffDecorations ==
    {<<>>, <<"|">>, <<SP, "|", SP>>, <<MIDDOT>>, <<HYPHEN>>, <<ENDASH>>, <<EMDASH>>,
     <<SP, EMDASH, SP>>, <<BACKSLASH>>, <<SP, SP>>, <<"*", "*">>, <<SP>>}
DiffTails == {<<>>, <<"AD">>}
DiffRaws == {w \o d \o t : w \in DiffWords, d \in DiffDecorations, t \in DiffTails}

FrontNames == {<<"lock", SP, "2">>, <<"x">>}
FrontEntries ==
    {e \in Entries : e.name = <<"Lock", HYPHEN, "2">>
                     \/ (e.name = <<"Re">> /\ e.diff = <<"easy">>)}
FrontDatasets == SeqsUpTo(FrontEntries, MaxEntries)

OsRaws == {<<"Linux">>, <<"windows">>, <<"FreeBSD">>, <<LOCK, SP, "unix">>,
           <<"foo", SP, "bar">>, <<>>}
PlatformRaws == {<<"HackTheBox">>, <<"Linux">>}
CategoryRaws == {<<"web">>, <<"web", SP, "|", SP, "pwn">>, <<"web", ",", ",", "pwn">>}

\* The attribute maps handed to build_front_matter: every difficulty, and
\* every combination of an os, a platform and a category entry.
FrontMetas ==
    {[k \in {<<"difficulty">>} |-> raw] : raw \in DiffRaws}
    \cup {[k \in keys |-> CASE k = <<"os">> -> o [] k = <<"platform">> -> p
                            [] k = <<"category">> -> c] :
            keys \in SUBSET {<<"os">>, <<"platform">>, <<"category">>},
            o \in OsRaws, p \in PlatformRaws, c \in CategoryRaws}

InitFront ==
    /\ Idle
    /\ \E n \in FrontNames, m \in FrontMetas, ds \in FrontDatasets :
         /\ <<"difficulty">> \in DOMAIN m \/ ds = <<>>
         /\ call = [fn |-> "build_front_matter", state |-> "called", name |-> n,
                 meta |-> m, boxes |-> ds, ret |-> <<>>]

\* build_front_matter returns.
FrontMatterReturn ==
    /\ call.fn = "build_front_matter" /\ call.state = "called"
    /\ \E pwned \in BOOLEAN :
         call' = [call EXCEPT
                    !.state = "returned",
                    !.ret = build_front_matter(call.name, call.meta, "active",
                                "HackTheBox", <<>>, pwned, <<"2026">>, call.boxes)]
    /\ UNCHANGED pipeline

NextFront == FrontMatterReturn

SpecFront == InitFront /\ [][NextFront]_vars

FrontReturned == call.fn = "build_front_matter" /\ call.state = "returned"

CanonicalWords ==
    {<<"easy">>, <<"medium">>, <<"hard">>, <<"insane">>, <<"varied">>, <<"basic">>,
     <<"season">>}

\* s is a canonical difficulty word followed by trailing decoration: a pipe, a
\* middot, a hyphen or dash, a backslash, two or more spaces, a bold-marker
\* pair, or a space and further text.
IsDecorated(s) ==
    /\ Len(s) >= 2
    /\ Lower(<<s[1]>>) \in CanonicalWords
    /\ \/ s[2] \in {"|", MIDDOT, HYPHEN, ENDASH, EMDASH, BACKSLASH}
       \/ s[2] = SP
       \/ Len(s) >= 3 /\ s[2] = "*" /\ s[3] = "*"

\* C2 as stated: a canonical difficulty word followed by trailing decoration
\* normalises to the synonym-table value of that word.
C2_DecorationStripped ==
    (FrontReturned /\ <<"difficulty">> \in DOMAIN call.meta
                   /\ IsDecorated(call.meta[<<"difficulty">>])) =>
        call.ret.diff = DIFF_MAP[Lower(<<call.meta[<<"difficulty">>][1]>>)]

\* The cleaned difficulty token is empty or 'unknown'.
TokenUnusable ==
    DiffToken(call.meta) = <<>> \/ Lower(DiffToken(call.meta)) = <<"unknown">>

\* C3: an empty or 'unknown' token is replaced by the difficulty of the
\* fallback entry that matches the name, before the synonym table is applied;
\* a usable token is not influenced by the fallback dataset; without a
\* matching fallback the result is 'Unknown'.
C3_FallbackDifficulty ==
    FrontReturned =>
        LET hits == NormalisedMatches(call.name, call.boxes)
        IN  /\ (TokenUnusable /\ hits # {}) =>
                   call.ret.diff = DiffMapped(call.boxes[First(hits)].diff)
            /\ (TokenUnusable /\ hits = {}) => call.ret.diff = <<"Unknown">>
            /\ ~TokenUnusable => call.ret.diff = DiffMapped(DiffToken(call.meta))

\* C3 witness: raw '' with a matching fallback entry of difficulty
\* 'medium-hard' gives 'Hard'.
C3_Witness ==
    /\ FrontReturned
    /\ Get(call.meta, <<"difficulty">>, <<>>) = <<>>
    /\ call.boxes # <<>>
    /\ NormalisedMatches(call.name, call.boxes) # {}
    /\ call.boxes[First(NormalisedMatches(call.name, call.boxes))].diff
           = <<"medium", HYPHEN, "hard">>
    /\ call.ret.diff = <<"Hard">>

\* C7 as stated: os is the OS normalisation of the map's 'os' entry, whatever
\* the map's 'platform' entry is.
C7_OsIndependentOfPlatform ==
    FrontReturned => call.ret.os_val = OsNormalised(Get(call.meta, <<"os">>, <<>>))

\* ------------------------------------------------------------- documents

\* '\n'.join(lines)
RECURSIVE JoinLines(_)
JoinLines(lines) ==
    IF lines = <<>> THEN <<>>
    ELSE IF Len(lines) = 1 THEN lines[1]
    ELSE lines[1] \o <<NL>> \o JoinLines(Tail(lines))

\* ------------------------------------------------------------- parse_readme_meta under call

MaxMetaLines == 4
MetaLineSet ==
    {FENCE,
     <<"difficulty", ":", SP, "Easy">>,
     <<"Difficulty", ":", SP, QUOTE, "Hard", QUOTE>>,
     <<"*", "*", "Difficulty", ":", "*", "*", SP, "Insane">>,
     <<"*", "*", "Platform", ":", "*", "*", SP, "Linux">>,
     <<"os", ":", SP, "windows">>}
MetaTexts == {JoinLines(ls) : ls \in SeqsUpTo(MetaLineSet, MaxMetaLines)}

InitMeta ==
    /\ Idle
    /\ \E t \in MetaTexts :
         call = [fn |-> "parse_readme_meta", state |-> "front matter", text |-> t,
                 lines |-> FrontMatterLines(t), keys |-> PatternKeys, meta |-> <<>>]

\* One iteration of the loop over the front-matter lines.
MetaFrontMatterLine ==
    /\ call.fn = "parse_readme_meta" /\ call.state = "front matter"
    /\ call.lines # <<>>
    /\ call' = [call EXCEPT !.meta = FrontMatterAssign(call.meta, Head(call.lines)),
                            !.lines = Tail(call.lines)]
    /\ UNCHANGED pipeline

\* The front matter is done (or there is none): on to the patterns.
MetaFrontMatterDone ==
    /\ call.fn = "parse_readme_meta" /\ call.state = "front matter"
    /\ call.lines = <<>>
    /\ call' = [call EXCEPT !.state = "patterns"]
    /\ UNCHANGED pipeline

\* One iteration of the loop over patterns.items().
MetaPatternKey ==
    /\ call.fn = "parse_readme_meta" /\ call.state = "patterns"
    /\ call.keys # <<>>
    /\ call' = [call EXCEPT !.meta = PatternAssign(call.meta, call.text, Head(call.keys)),
                            !.keys = Tail(call.keys)]
    /\ UNCHANGED pipeline

\* return meta
MetaReturn ==
    /\ call.fn = "parse_readme_meta" /\ call.state = "patterns"
    /\ call.keys = <<>>
    /\ call' = [call EXCEPT !.state = "returned"]
    /\ UNCHANGED pipeline

NextMeta == MetaFrontMatterLine \/ MetaFrontMatterDone \/ MetaPatternKey \/ MetaReturn

SpecMeta == InitMeta /\ [][NextMeta]_vars

\* A key that is set keeps its value in this step.
SetKeysKeepValue ==
    \A k \in DOMAIN call.meta : k \in DOMAIN call'.meta /\ call'.meta[k] = call.meta[k]

\* C6 as stated: every key is populated at most once; no later front-matter
\* line and no later pattern changes the value of a key that is set.
C6_PopulatedAtMostOnce == [][SetKeysKeepValue]_vars

\* The key a front-matter line assigns, <<>> for a line without a colon.
LineKey(line) ==
    IF ":" \in {line[i] : i \in 1..Len(line)}
    THEN <<Lower(Strip(Slice(line, 1, MinOf({i \in 1..Len(line) : line[i] = ":"}) - 1)))>>
    ELSE <<>>

\* The value a front-matter line with a colon gives its key: the text behind
\* the first colon without surrounding whitespace and quote characters.
LineValue(line) ==
    LET c == MinOf({i \in 1..Len(line) : line[i] = ":"})
        v == Strip(Slice(line, c + 1, Len(line)))
        unquoted(x) == LET lo == {i \in 1..Len(x) : x[i] # QUOTE}
                       IN  IF lo = {} THEN <<>> ELSE Slice(x, MinOf(lo), MaxOf(lo))
        unticked(x) == LET lo == {i \in 1..Len(x) : x[i] # "'"}
                       IN  IF lo = {} THEN <<>> ELSE Slice(x, MinOf(lo), MaxOf(lo))
    IN  unticked(unquoted(v))

\* The front-matter lines of the text that assign key k.
LinesOf(k) ==
    {i \in 1..Len(FrontMatterLines(call.text)) :
        LineKey(FrontMatterLines(call.text)[i]) = <<k>>}

\* The map a call returns, key by key: a key of the front matter holds the
\* value of its last front-matter line; any other key is a pattern key that
\* holds the value of the bold pattern if that one matches, else of the plain one.
ReturnedMapAsResolved ==
    /\ \A k \in DOMAIN call.meta :
         IF LinesOf(k) # {}
         THEN call.meta[k] = LineValue(FrontMatterLines(call.text)[MaxOf(LinesOf(k))])
         ELSE /\ \E i \in 1..Len(PatternKeys) : k = <<PatternKeys[i]>>
              /\ LET bold  == BoldSearch(call.text, PatternLabels(k[1]))
                     plain == PlainSearch(call.text, PatternLabels(k[1]))
                 IN  IF bold # <<>> THEN call.meta[k] = Strip(bold[1])
                     ELSE plain # <<>> /\ call.meta[k] = Strip(plain[1])
    /\ \A i \in 1..Len(PatternKeys) :
         <<PatternKeys[i]>> \notin DOMAIN call.meta =>
             /\ LinesOf(<<PatternKeys[i]>>) = {}
             /\ BoldSearch(call.text, PatternLabels(PatternKeys[i])) = <<>>
             /\ PlainSearch(call.text, PatternLabels(PatternKeys[i])) = <<>>
    /\ call.text = <<>> => call.meta = <<>>

\* C6 as amended: among the front-matter lines the last line of a key fixes
\* its value (a later line overwrites an earlier one); from the end of the
\* front-matter pass on every key is populated at most once: no pattern changes
\* a key that is set, the bold pattern is tried before the plain one, a key
\* nothing matches is absent, and an empty document yields an empty map.
C6_LastFrontMatterLineThenOnce ==
    /\ [][(call.state = "patterns" => SetKeysKeepValue)
          /\ DOMAIN call.meta \subseteq DOMAIN call'.meta]_vars
    /\ [](call.state = "returned" => ReturnedMapAsResolved)

\* C6 witness: a returned map in which a key given by two front-matter lines
\* holds the value of the second, although the plain pattern of that key
\* matches the first.
C6_Witness ==
    /\ call.fn = "parse_readme_meta" /\ call.state = "returned"
    /\ Cardinality(LinesOf(<<"difficulty">>)) = 2
    /\ call.meta[<<"difficulty">>] = <<"Hard">>
    /\ PlainSearch(call.text, {"difficulty"}) # <<>>
    /\ Strip(PlainSearch(call.text, {"difficulty"})[1]) = <<"Easy">>

\* ------------------------------------------------------------- section extractors under call

MaxSectionLines == 4
SectionLineSet ==
    {<<"#", "#", SP, "Summary">>, <<"#", "#", SP, "Teaser">>, <<"#", "#", SP, "Notes">>,
     <<"foo">>, <<>>}
SectionTexts == {JoinLines(ls) : ls \in SeqsUpTo(SectionLineSet, MaxSectionLines)}

InitSection ==
    /\ Idle
    /\ \E t \in SectionTexts :
         call = [fn |-> "extract_section", state |-> "called", text |-> t,
                 summary |-> <<>>, teaser |-> <<>>]

\* extract_summary_from_readme and extract_teaser return.
SectionReturn ==
    /\ call.fn = "extract_section" /\ call.state = "called"
    /\ call' = [call EXCEPT !.state = "returned",
                            !.summary = extract_summary_from_readme(call.text),
                            !.teaser = extract_teaser(call.text)]
    /\ UNCHANGED pipeline

NextSection == SectionReturn

SpecSection == InitSection /\ [][NextSection]_vars

\* The text holds a '##' heading marker.
HasHeadingMarker(s) == \E i \in 1..(Len(s) - 1) : s[i] = "#" /\ s[i + 1] = "#"

\* C10 as stated: the extracted Summary and Teaser stop at the next '##'
\* heading: they hold no later heading line, and a heading with an empty body
\* yields the empty string.
C10_SectionStopsAtNextHeading ==
    (call.fn = "extract_section" /\ call.state = "returned") =>
        ~HasHeadingMarker(call.summary) /\ ~HasHeadingMarker(call.teaser)

\* ------------------------------------------------------------- process_box under call

\* README texts: an optional front matter, status line, Summary section,
\* Teaser section and closing section, in this order.
FrontMatterParts ==
    {<<>>, FENCE \o <<NL, "status", ":", SP, "private", NL>> \o FENCE \o <<NL>>}
StatusParts ==
    {<<>>,
     <<"*", "*", "Status", ":", "*", "*", SP, LOCK, SP, "Private", NL>>,
     <<"*", "*", "Status", ":", "*", "*", SP, HOURGLASS, NL>>}
SummaryParts ==
    {<<>>,
     <<"#", "#", SP, "Summary", NL, "*", "foo", "*", NL, "bar", NL, NL, "x", NL>>,
     <<"#", "#", SP, "Summary", NL>>}
TeaserParts == {<<>>, <<"#", "#", SP, "Teaser", NL, "bar", SP, "pwn", NL>>}
ClosingParts == {<<>>, <<"#", "#", SP, "Notes", NL, "web">>}
BoxTexts ==
    {f \o st \o su \o te \o cl :
        f \in FrontMatterParts, st \in StatusParts, su \in SummaryParts,
        te \in TeaserParts, cl \in ClosingParts}

BoxNames == {<<"lock", SP, "2">>, <<"x">>}
BoxDatasets ==
    {<<>>,
     <<[name |-> <<"Lock", HYPHEN, "2">>, diff |-> <<"easy">>, summary |-> <<"foo">>]>>,
     <<[name |-> <<"Re">>, diff |-> <<"easy">>, summary |-> <<"bar">>],
       [name |-> <<"Lock", HYPHEN, "2">>, diff |-> <<>>, summary |-> <<>>]>>}
BoxDirs ==
    {[name |-> n, readme |-> r, date |-> <<"2026">>, files |-> fs] :
        n \in BoxNames, r \in {<<>>} \cup {<<t>> : t \in BoxTexts},
        fs \in {{}, {"shot.png", "notes.txt"}}}

InitBox ==
    /\ Idle
    /\ \E b \in BoxDirs, c \in {"active", "retired"}, d \in BOOLEAN, ds \in BoxDatasets :
         /\ b.files = {} \/ (ds = <<>> /\ b.name = <<"x">>)
         /\ call = [fn |-> "process_box", state |-> "called", box |-> b, category |-> c,
                    dry |-> d, boxes |-> ds, out |-> <<>>]

\* process_box returns.
ProcessBoxReturn ==
    /\ call.fn = "process_box" /\ call.state = "called"
    /\ call' = [call EXCEPT
                  !.state = "returned",
                  !.out = process_box(call.box, call.category, "HackTheBox", call.dry,
                                      call.boxes)]
    /\ UNCHANGED pipeline

NextBox == ProcessBoxReturn

SpecBox == InitBox /\ [][NextBox]_vars

\* process_box returned a record for a box with a README.
BoxReturned ==
    call.fn = "process_box" /\ call.state = "returned" /\ call.out.ret # <<>>

\* The three tiers of the summary of the box under call.
Tier1 == extract_summary_from_readme(call.box.readme[1])
Tier2 ==
    LET hits == NormalisedMatches(call.box.name, call.boxes)
    IN  IF hits = {} THEN <<>> ELSE call.boxes[First(hits)].summary
Tier3 == extract_teaser(call.box.readme[1])

\* The raw status value holds the lock glyph or the word 'private'.
StatusSaysPrivate ==
    LET status == Get(parse_readme_meta(call.box.readme[1]), <<"status">>, <<>>)
    IN  \E i \in 1..Len(status) : status[i] = LOCK \/ LowerAtom(status[i]) = "private"

IndexPath == DestPath(call.category, slugify(call.box.name)) \o <<"/", "index.md">>
FrontMatterWritten ==
    build_front_matter(call.box.name, parse_readme_meta(call.box.readme[1]),
        call.category, "HackTheBox", call.out.ret[1].summary,
        call.out.ret[1].status = "done", call.box.date, call.boxes).fm
BodyWritten ==
    Slice(call.out.writes[IndexPath], Len(FrontMatterWritten) + 1,
          Len(call.out.writes[IndexPath]))

\* s is the text t without a leading block that starts with the fence '---'
\* and ends with a line break (t itself when nothing is removed).
IsTextWithoutLeadingBlock(s, t) ==
    \/ s = t
    \/ /\ Len(s) < Len(t)
       /\ s = Slice(t, Len(t) - Len(s) + 1, Len(t))
       /\ LitAt(t, 1, FENCE)
       /\ t[Len(t) - Len(s)] = NL

MaxBoxes == 2

PrivateText ==
    <<"*", "*", "Status", ":", "*", "*", SP, LOCK, SP, "Private", NL,
      "#", "#", SP, "Teaser", NL, "bar", SP, "pwn", NL,
      "#", "#", SP, "Notes", NL, "web">>
SummaryText ==
    FENCE \o <<NL, "difficulty", ":", SP, "Easy", NL>> \o FENCE \o
    <<NL, "#", "#", SP, "Summary", NL, "foo", NL>>
PlainText == <<"Difficulty", ":", SP, "Hard", NL, "web">>

\* The entries a scan dir may hold: box directories with or without README.md,
\* and a plain file.
EntryPool ==
    {[name |-> <<"Re", SP, "Lock">>, is_dir |-> TRUE, readme |-> <<PrivateText>>,
      date |-> <<"2026">>, files |-> {"shot.png", "notes.txt"}],
     [name |-> <<"re", HYPHEN, "lock">>, is_dir |-> TRUE, readme |-> <<SummaryText>>,
      date |-> <<"2026">>, files |-> {}],
     [name |-> <<"re", HYPHEN, "lock">>, is_dir |-> TRUE, readme |-> <<>>,
      date |-> <<"2026">>, files |-> {}],
     [name |-> <<"x">>, is_dir |-> TRUE, readme |-> <<PlainText>>,
      date |-> <<"2026">>, files |-> {}],
     [name |-> <<"x">>, is_dir |-> FALSE, readme |-> <<>>,
      date |-> <<"2026">>, files |-> {}]}

\* The contents of one scan dir: entries with distinct names.
ScanDirs ==
    {es \in SUBSET EntryPool :
        /\ Cardinality(es) <= MaxBoxes
        /\ \A x, y \in es : x.name = y.name => x = y}

\* The ctf-writeups trees: the scan dirs that exist, with their contents, of at
\* most MaxBoxes entries in all.
CtfTrees ==
    {t \in UNION {[ps -> ScanDirs] : ps \in SUBSET {"HTB/Active", "HTB/ProLabs"}} :
        \A p, q \in DOMAIN t : p # q => Cardinality(t[p]) + Cardinality(t[q]) <= MaxBoxes}

BoxesYml ==
    <<[name |-> <<"x">>, difficulty |-> <<SP, "insane">>,
       notes |-> <<"foo", SP, NL, SP, "bar">>],
      [difficulty |-> <<"easy">>]>>
ProlabsYml ==
    <<[name |-> <<"Re", "_", "Lock">>, tier |-> <<"Red">>, blurb |-> <<"pwn">>],
      [name |-> <<"X">>]>>
YamlDirs ==
    {<<>>, <<("boxes.yml" :> BoxesYml)>>, <<("prolabs.yml" :> ProlabsYml)>>,
     <<("boxes.yml" :> BoxesYml) @@ ("prolabs.yml" :> ProlabsYml)>>}

\* The state when main() is entered: an empty output root.  Without a YAML
\* dir the yaml module is never used, so HAS_YAML varies only with one.
Init ==
    /\ call = [fn |-> "main"]
    /\ pc = "start"
    /\ dry_run \in BOOLEAN
    /\ yaml_dir \in YamlDirs
    /\ HAS_YAML \in IF Cardinality(DOMAIN yaml_dir) = 0 THEN {TRUE} ELSE BOOLEAN
    /\ ctf_root \in {<<>>} \cup {<<t>> : t \in CtfTrees}
    /\ existing_boxes = <<>>
    /\ path_i = 1
    /\ scan = <<>>
    /\ all_boxes = <<>>
    /\ total = 0
    /\ processed = 0
    /\ dirs = {}
    /\ files = <<>>

\* Lines 350-363: the ctf-writeups check, the output dir, the YAML backfill.
MainStart ==
    /\ pc = "start"
    /\ IF ctf_root = <<>>
       THEN /\ pc' = "done"
            /\ UNCHANGED <<existing_boxes, dirs>>
       ELSE /\ pc' = "scan_paths"
            /\ dirs' = IF dry_run THEN dirs ELSE dirs \cup {DEST_DIR}
            /\ existing_boxes' = load_existing_boxes(yaml_dir, HAS_YAML)
    /\ UNCHANGED <<call, dry_run, HAS_YAML, ctf_root, yaml_dir, path_i, scan, all_boxes,
                   total, processed, files>>

\* Lines 365-371: the next entry of SCAN_PATHS.
ScanPath ==
    /\ pc = "scan_paths" /\ path_i <= Len(SCAN_PATHS)
    /\ LET rel_path == SCAN_PATHS[path_i][1]
           category == SCAN_PATHS[path_i][2]
       IN  IF rel_path \notin DOMAIN ctf_root[1]
           THEN /\ path_i' = path_i + 1
                /\ UNCHANGED <<pc, scan, all_boxes>>
           ELSE /\ all_boxes' = (category :> <<>>) @@ all_boxes
                /\ scan' = SortedEntries(ctf_root[1][rel_path])
                /\ pc' = "scan_dir"
                /\ UNCHANGED path_i
    /\ UNCHANGED <<call, dry_run, HAS_YAML, ctf_root, yaml_dir, existing_boxes, total,
                   processed, dirs, files>>

\* Lines 373-385: one entry of the scan dir.
ProcessBox ==
    /\ pc = "scan_dir" /\ scan # <<>>
    /\ \E out \in {process_box(Head(scan), SCAN_PATHS[path_i][2], SCAN_PATHS[path_i][3],
                                dry_run, existing_boxes)} :
         IF ~Head(scan).is_dir
         THEN UNCHANGED <<all_boxes, total, processed, dirs, files>>
         ELSE /\ total' = total + 1
              /\ dirs' = dirs \cup out.mkdirs
              /\ files' = out.writes @@ files
              /\ IF out.ret # <<>>
                 THEN /\ processed' = processed + 1
                      /\ all_boxes' = [all_boxes EXCEPT
                                         ![SCAN_PATHS[path_i][2]] = Append(@, out.ret[1])]
                 ELSE UNCHANGED <<all_boxes, processed>>
    /\ scan' = Tail(scan)
    /\ UNCHANGED <<call, pc, dry_run, HAS_YAML, ctf_root, yaml_dir, existing_boxes, path_i>>

\* The scan dir is exhausted: back to the loop over SCAN_PATHS.
ScanDirDone ==
    /\ pc = "scan_dir" /\ scan = <<>>
    /\ pc' = "scan_paths"
    /\ path_i' = path_i + 1
    /\ UNCHANGED <<call, dry_run, HAS_YAML, ctf_root, yaml_dir, existing_boxes, scan,
                   all_boxes, total, processed, dirs, files>>

\* Lines 387-426: the enrichment of the prolabs records and boxes-data.js (its
\* 'Last built' line left out).
Finish ==
    /\ pc = "scan_paths" /\ path_i > Len(SCAN_PATHS)
    /\ all_boxes' = Enriched(all_boxes, yaml_dir, HAS_YAML)
    /\ files' = IF dry_run THEN files
                ELSE (JS_OUT :> [total_writeups |-> processed, boxes |-> all_boxes'])
                     @@ files
    /\ pc' = "done"
    /\ UNCHANGED <<call, dry_run, HAS_YAML, ctf_root, yaml_dir, existing_boxes, path_i,
                   scan, total, processed, dirs>>

Next == MainStart \/ ScanPath \/ ProcessBox \/ ScanDirDone \/ Finish

Spec == Init /\ [][Next]_vars

\* C9: after a run with --dry-run the output tree is as it was before the run:
\* no directory was created and no file was written under the output root.
C9_DryRunWritesNothing ==
    (pc = "done" /\ dry_run) => (dirs = {} /\ files = <<>>)

\* The index.md files of the output tree.
IndexFiles == {p \in DOMAIN files : p # JS_OUT /\ p[Len(p)] = "index.md"}

\* The index.md a record points to: the file behind its url.
IndexOf(record) ==
    DestPath(record.category, slugify(record.name)) \o <<"/", "index.md">>

\* C11: after a run that writes, two records of one category (their documents
\* have different names) have different urls and different destination paths,
\* so no index.md was overwritten: there is one index.md per record, and the
\* file a record points to was produced from its own document (its front
\* matter names it).
C11_DistinctNamesDistinctPaths ==
    (pc = "done" /\ ~dry_run /\ ctf_root # <<>>) =>
        /\ \A c \in DOMAIN all_boxes : \A i, j \in 1..Len(all_boxes[c]) :
             i # j => /\ all_boxes[c][i].name # all_boxes[c][j].name
                      /\ all_boxes[c][i].url # all_boxes[c][j].url
                      /\ IndexOf(all_boxes[c][i]) # IndexOf(all_boxes[c][j])
        /\ Cardinality(IndexFiles) = processed
        /\ \A c \in DOMAIN all_boxes : \A i \in 1..Len(all_boxes[c]) :
             /\ IndexOf(all_boxes[c][i]) \in DOMAIN files
             /\ LitAt(files[IndexOf(all_boxes[c][i])], 1,
                      FENCE \o <<NL>> \o PlainLine("layout", <<"writeup">>)
                        \o QuotedLine("name", all_boxes[c][i].name))

\* ------------------------------------------------------------- inject_prolab_summaries: repeated runs

MaxInjectLines == 3
MaxRuns == 2

InjectLineSet ==
    {<<"#", "#", SP, "Notes">>, <<"#", "#", MEMO, SP, "summary">>,
     <<"#", "#", "#", SP, "Summary">>, <<SP, "#", "#", SP, "Summary">>,
     <<"#", "#">>, <<"Summary">>, <<>>}
InjectTexts == {JoinLines(ls) : ls \in SeqsUpTo(InjectLineSet, MaxInjectLines)}

\* A lab directory with the given README (<<>> when it has none).
LabDir(name, readme) ==
    [name |-> name, is_dir |-> TRUE, readme |-> readme, date |-> <<"2026">>, files |-> {}]

InjectYml ==
    <<[name |-> <<"Re", "_", "Lock">>, blurb |-> <<SP, "pwn", NL>>], [name |-> <<"X">>]>>
InjectYmlOther ==
    <<[tier |-> <<"Red">>],
      [name |-> <<"X">>, blurb |-> <<"foo", NL, "#", "#", SP, "x">>]>>

\* The ProLabs dirs and prolabs.yml files of the runs: one lab with every
\* README text, and a few texts beside a second entry or another prolabs.yml.
InjectInputs ==
    {<<{LabDir(<<"Re", SP, "Lock">>, <<t>>)}, <<("prolabs.yml" :> InjectYml)>>>> :
        t \in InjectTexts}
    \cup
    {<<{LabDir(<<"Re", SP, "Lock">>, r)} \cup o, y>> :
        r \in {<<>>, << <<"#", SP, "x", NL>> >>, << <<"#", "#", SP, "Summary">> >>},
        o \in {{LabDir(<<"x">>, << <<"#", "#", SP, "Notes", NL, NL>> >>)},
               {[LabDir(<<"x">>, <<>>) EXCEPT !.is_dir = FALSE]}},
        y \in {<<("prolabs.yml" :> InjectYml)>>, <<("prolabs.yml" :> InjectYmlOther)>>,
               <<>>}}

\* The state when the script is first run.
InitInject ==
    /\ pc = "inject_start"
    /\ dry_run \in BOOLEAN
    /\ \E in \in InjectInputs, there \in BOOLEAN :
         /\ ctf_root = IF there THEN <<(PROLABS_REL_PATH :> in[1])>> ELSE << <<>> >>
         /\ yaml_dir = in[2]
    /\ call = [fn |-> "inject_prolab_summaries", run |-> 1, wrote |-> FALSE,
               new_text |-> <<>>, updated |-> 0, skipped |-> 0, missing |-> 0]
    /\ HAS_YAML = TRUE
    /\ existing_boxes = <<>>
    /\ path_i = 1
    /\ scan = <<>>
    /\ all_boxes = <<>>
    /\ total = 0
    /\ processed = 0
    /\ dirs = {}
    /\ files = <<>>

\* The variables of build.py's run that the script leaves alone.
build_only == <<HAS_YAML, existing_boxes, path_i, all_boxes, total, processed, dirs, files>>

\* The entries of the ProLabs dir.
Labs ==
    IF PROLABS_REL_PATH \in DOMAIN ctf_root[1] THEN ctf_root[1][PROLABS_REL_PATH] ELSE {}

\* Lines 60-85: the two existence checks, the lookup, the counters.
InjectStart ==
    /\ pc = "inject_start"
    /\ IF yaml_dir = <<>> \/ PROLABS_REL_PATH \notin DOMAIN ctf_root[1]
       THEN /\ pc' = "inject_done"
            /\ call' = [call EXCEPT !.wrote = @ \/ ~dry_run]
            /\ UNCHANGED scan
       ELSE /\ pc' = "inject_labs"
            /\ scan' = SortedEntries(Labs)
            /\ call' = [call EXCEPT !.updated = 0, !.skipped = 0, !.missing = 0]
    /\ UNCHANGED <<dry_run, ctf_root, yaml_dir>>
    /\ UNCHANGED build_only

\* Lines 87-130: one entry of the ProLabs dir.
InjectLab ==
    /\ pc = "inject_labs" /\ scan # <<>>
    /\ LET lab_dir  == CHOOSE e \in Labs : e.name = Head(scan).name
           yaml_map == YamlLookup(yaml_dir[1]["prolabs.yml"])
           key      == Normalise(lab_dir.name)
           blurb    == Strip(Get(yaml_map[key], "blurb", <<>>))
           text     == lab_dir.readme[1]
           new_text == inject_summary(text, blurb)
       IN  IF ~lab_dir.is_dir
           THEN UNCHANGED <<call, ctf_root>>
           ELSE IF lab_dir.readme = <<>> \/ key \notin DOMAIN yaml_map
           THEN /\ call' = [call EXCEPT !.missing = @ + 1]
                /\ UNCHANGED ctf_root
           ELSE IF blurb = <<>> \/ has_summary_section(text)
           THEN /\ call' = [call EXCEPT !.skipped = @ + 1]
                /\ UNCHANGED ctf_root
           ELSE /\ call' = [call EXCEPT !.updated = @ + 1, !.new_text = <<new_text>>]
                /\ ctf_root' =
                     IF dry_run THEN ctf_root
                     ELSE <<[ctf_root[1] EXCEPT ![PROLABS_REL_PATH] =
                               (@ \ {lab_dir}) \cup
                               {[lab_dir EXCEPT !.readme = <<new_text>>]}]>>
    /\ scan' = Tail(scan)
    /\ UNCHANGED <<pc, dry_run, yaml_dir>>
    /\ UNCHANGED build_only

\* Lines 132-138: the loop is over, the run ends.
InjectFinish ==
    /\ pc = "inject_labs" /\ scan = <<>>
    /\ pc' = "inject_done"
    /\ call' = [call EXCEPT !.wrote = @ \/ ~dry_run]
    /\ UNCHANGED <<dry_run, ctf_root, yaml_dir, scan>>
    /\ UNCHANGED build_only

\* The script is run again, with or without --dry-run, with the same
\* prolabs.yml.
InjectAgain ==
    /\ pc = "inject_done" /\ call.run < MaxRuns
    /\ pc' = "inject_start"
    /\ dry_run' \in BOOLEAN
    /\ call' = [call EXCEPT !.run = @ + 1, !.new_text = <<>>]
    /\ UNCHANGED <<ctf_root, yaml_dir, scan>>
    /\ UNCHANGED build_only

NextInject == InjectStart \/ InjectLab \/ InjectFinish \/ InjectAgain

SpecInject == InitInject /\ [][NextInject]_vars

\* The README of the lab of this name (<<>> when it has none), now and after
\* the step.
ReadmeOf(name) == (CHOOSE e \in Labs : e.name = name).readme
ReadmeAfter(name) ==
    (CHOOSE e \in ctf_root'[1][PROLABS_REL_PATH] : e.name = name).readme

\* What one step of the script may do to the READMEs: a dry run and a run
\* after a completed writing run change none; no lab appears or disappears; a
\* README with a Summary heading stays as it is; a README that changes had no
\* Summary heading and has one afterwards.
InjectStepAllowed ==
    /\ DOMAIN ctf_root'[1] = DOMAIN ctf_root[1]
    /\ {e.name : e \in Labs} = {e.name : e \in Labs'}
    /\ (dry_run \/ call.wrote) => ctf_root' = ctf_root
    /\ \A e \in Labs :
         /\ (e.readme = <<>> \/ has_summary_section(e.readme[1]))
               => ReadmeAfter(e.name) = e.readme
         /\ ReadmeAfter(e.name) # e.readme
               => /\ ~has_summary_section(e.readme[1])
                  /\ has_summary_section(ReadmeAfter(e.name)[1])

\* C12: the text inject_summary returns for a README without Summary heading
\* and a non-empty blurb has a Summary heading, so a run after a writing run
\* with the same prolabs.yml changes no README; a README with a Summary heading
\* is never modified, and a dry run modifies no README.
C12_InjectIdempotent ==
    /\ [][InjectStepAllowed]_vars
    /\ [](call.new_text # <<>> => has_summary_section(call.new_text[1]))

\* C12 witness: the second run, after a run that wrote, is over: it updated
\* nothing and skipped the lab whose README the first run gave its Summary
\* block.
C12_Witness ==
    /\ pc = "inject_done" /\ call.run = 2 /\ call.wrote /\ ~dry_run
    /\ call.updated = 0 /\ call.skipped = 1
    /\ ReadmeOf(<<"Re", SP, "Lock">>)
         = << <<"#", SP, "x", NL, NL>> \o SummaryBlock(<<"pwn">>) >>

====
